---------------------------- MODULE Spec2Model ----------------------------
(***************************************************************************)
(* A model of chainsaw's split (src/src/split.cc) and join                 *)
(* (src/src/join.cc) working on a disk of files.                           *)
(*                                                                         *)
(* The model is a scale model: every size of the program is kept, with a   *)
(* small value in place of the program's, so that every arithmetic case    *)
(* of the code happens on files of a few bytes:                            *)
(*                                                                         *)
(*   HeaderSize  sizeof(shard_hdr_t)               2 cells                 *)
(*   BufSize     sizeof(buffer), 0x10000           2 bytes                 *)
(*   NameCap     sizeof(original_name), 256        4 characters            *)
(*   U16Max      the largest uint16_t, 65535       4                       *)
(*   ByteBits    bits of a byte, 8                 2                       *)
(*   CrcBits     bits of the CRC, 32               4                       *)
(*                                                                         *)
(* A file is a record [hdr, data].  A shard file holds the header that     *)
(* was written at offset 0 (HeaderSize bytes) and the payload after it; a  *)
(* file that does not start with a shard header has hdr = NoHdr and all    *)
(* of its bytes in data.  The permission bits split copies from the        *)
(* source to the shards are not modelled.                                  *)
(*                                                                         *)
(* Spec runs split on a source, lets the environment change one shard,     *)
(* and runs join on a list of files.  SplitSpec is split alone under weak  *)
(* fairness.  CliSpec runs main (src/src/chainsaw.cc) on a command line    *)
(* and the split it calls.  fds follows the file descriptors that the      *)
(* file_t objects (src/src/file.cc) of split and join open and close.      *)
(***************************************************************************)
EXTENDS Integers, Sequences, FiniteSets, TLC

\* ------------------------------------------------------------ the bounds
MaxSize == 7
MaxM == 6
MaxSeed == 1
MaxList == 3
MaxArgs == 3
MaxFds == 8

\* -------------------------------------------------- the program's sizes
HeaderSize == 2
BufSize == 2
NameCap == 4
U16Max == 4
ByteBits == 2
CrcBits == 4
\* The generator polynomial x^4 + x + 1, bit-reflected as update_crc's
\* table-driven loop uses it (0xEDB88320 for the 32-bit CRC).
CrcPoly == 12
\* 1024 * 1024, the bytes of the unit of -s.
MiB == 3
\* The least length of a shard prefix.
MinPrefix == 3

ExpectedMagic == "B007C8AD"

ByteMod == 2 ^ ByteBits
CrcMod == 2 ^ CrcBits

\* --------------------------------------------------------------- helpers
Min(a, b) == IF a <= b THEN a ELSE b

SetMax(S) == CHOOSE x \in S : \A y \in S : y <= x

SetMin(S) == CHOOSE x \in S : \A y \in S : x <= y

RECURSIVE XorBits(_, _)
\* Bitwise exclusive or of two naturals, bit by bit.
XorBits(a, b) ==
  IF a = 0 THEN b
  ELSE IF b = 0 THEN a
  ELSE ((a + b) % 2) + 2 * XorBits(a \div 2, b \div 2)

\* The exclusive or of every two register values, as a table.
XorTable ==
  [a \in 0..(CrcMod - 1) |-> [b \in 0..(CrcMod - 1) |-> XorBits(a, b)]]

Xor(a, b) == XorTable[a][b]

\* One step of the reflected CRC shift register, for every register value.
ShiftTable ==
  [c \in 0..(CrcMod - 1) |->
     IF c % 2 = 1 THEN Xor(c \div 2, CrcPoly) ELSE c \div 2]

RECURSIVE CrcShift(_, _)
\* k steps of the reflected CRC shift register.
CrcShift(c, k) == IF k = 0 THEN c ELSE CrcShift(ShiftTable[c], k - 1)

RECURSIVE CrcBytes(_, _)
CrcBytes(c, bytes) ==
  IF bytes = <<>> THEN c
  ELSE CrcBytes(CrcShift(Xor(c, Head(bytes)), ByteBits), Tail(bytes))

\* update_crc(crc, buffer, size): the incremental CRC accumulator, started
\* from crc = 0 by its callers; the register is complemented on the way in
\* and on the way out.
update_crc(crc, bytes) ==
  Xor(CrcBytes(Xor(crc, CrcMod - 1), bytes), CrcMod - 1)

Digit(n) == <<"0", "1", "2", "3", "4", "5", "6", "7", "8", "9">>[n + 1]

RECURSIVE Dec(_)
\* operator<< of an unsigned integer: its decimal digits.
Dec(n) == IF n < 10 THEN <<Digit(n)>> ELSE Dec(n \div 10) \o <<Digit(n % 10)>>

\* The name the comment above make_shard_name gives: "foo@2.3" for idx = 1.
make_shard_name_AsCommented(path, idx, count) ==
  path \o <<"@">> \o Dec(idx + 1) \o <<".">> \o Dec(count)

\* make_shard_name(path, idx, count): "<path>@<idx>.<count>".
make_shard_name(path, idx, count) ==
  path \o <<"@">> \o Dec(idx) \o <<".">> \o Dec(count)

\* The name after the last '/' of the path (strrchr), or the whole path.
BaseName(path) ==
  LET slashes == {i \in 1..Len(path) : path[i] = "/"}
  IN  IF slashes = {} THEN path
      ELSE SubSeq(path, SetMax(slashes) + 1, Len(path))

\* ------------------------------------------------------------- the files
\* memset(&shard_hdr, 0, sizeof(shard_hdr_t)); also what a file that is no
\* shard shows where a header would be, with a magic that is not the
\* expected one.
ZeroHdr ==
  [magic |-> "0", shard_idx |-> 0, shard_count |-> 0, original_size |-> 0,
   original_crc |-> 0, shard_size |-> 0, shard_crc |-> 0,
   original_name |-> <<>>]

NoHdr == [ZeroHdr EXCEPT !.magic = "none"]

\* open(path, O_RDWR | O_CREAT | O_TRUNC): an empty file.
EmptyFile == [hdr |-> NoHdr, data |-> <<>>]

\* st_size of a file.
FileSize(f) == (IF f.hdr = NoHdr THEN 0 ELSE HeaderSize) + Len(f.data)

\* The bytes of a source file of the given size: byte i is seed * i.
Content(size, seed) == [i \in 1..size |-> (seed * i) % ByteMod]

\* The source paths tried: no directory and the longest name that fits the
\* header, a directory to strip, and a base name one character too long.
Paths ==
  { <<"a", "b", "c">>,
    <<"d", "/", "a">>,
    <<"d", "/", "a", "b", "c", "e">> }

NoPath == <<>>

\* read(fd, buffer, max_size) on a regular file: what is left of the
\* file's bytes from the current position, at most max_size.
ReadAtMost(bytes, pos, max_size) ==
  SubSeq(bytes, pos + 1, pos + Min(max_size, Len(bytes) - pos))

VARIABLES disk, sp, jn, orig, damage, cli, fds

vars == <<disk, sp, jn, orig, damage, cli, fds>>

NoResult == [kind |-> "none", path |-> NoPath]

Success == [kind |-> "success", path |-> NoPath]

Failure(kind, path) == [kind |-> kind, path |-> path]

NoDamage == [kind |-> "none", path |-> NoPath]

\* No call of split or join made.
NoCall == [op |-> "none", file_names |-> <<>>, max_shard_size |-> 0]

\* app_t before main has built it: no argument, nothing parsed, no call.
CliIdle ==
  [pc |-> "idle", app_params |-> <<>>, i |-> 0, user_files |-> <<>>,
   max_shard_size |-> 0, make_directory |-> FALSE, shard_prefix |-> <<>>,
   call |-> NoCall, result |-> "none"]

\* --------------------------------------------------------------- file_t
\* The file descriptors of the process and the file_t objects that hold
\* them: "in" and "out" of split or join, "shard" (the local of
\* open_shard) and "result" (the local of open_ro and open_rw).  An
\* object that does not exist holds illegal_fd, as a closed one does.
illegal_fd == -1

\* The descriptors open() can return: 0, 1 and 2 are the standard streams.
FirstFd == 3

Objects == {"in", "out", "shard", "result"}

Fds == FirstFd..(FirstFd + MaxFds - 1)

\* No descriptor open, no object; ebadf tells whether a close() was ever
\* called on a descriptor that was not open.
NoFds ==
  [open |-> {}, obj |-> [o \in Objects |-> illegal_fd], ebadf |-> FALSE]

\* result.fd = open(path, ...): the lowest descriptor that is not open.
Open(f, object) ==
  LET fd == SetMin(Fds \ f.open)
  IN  [f EXCEPT !.open = @ \cup {fd}, !.obj[object] = fd]

\* ~file_t: close(fd) when fd >= 0; after EBADF fd is set to illegal_fd,
\* after a close that worked it is left as it is.
Destroy(f, object) ==
  LET fd == f.obj[object]
  IN  IF fd < 0 THEN f
      ELSE IF fd \in f.open THEN [f EXCEPT !.open = @ \ {fd}]
      ELSE [f EXCEPT !.ebadf = TRUE, !.obj[object] = illegal_fd]

\* file_t(file_t &&donor): the descriptor moves, the donor is left closed.
MoveConstruct(f, object, donor) ==
  [f EXCEPT !.obj[object] = f.obj[donor], !.obj[donor] = illegal_fd]

\* A move assignment that does not destroy what the object held.
MoveAssign_Leaks(f, object, donor) == MoveConstruct(f, object, donor)

\* operator=(file_t &&donor): the object is destroyed in place, then
\* move-constructed from the donor.
MoveAssign(f, object, donor) ==
  IF object = donor THEN f
  ELSE MoveConstruct(Destroy(f, object), object, donor)

\* The end of an object's life: its destructor runs and it is gone.
Leave(f, object) == [Destroy(f, object) EXCEPT !.obj[object] = illegal_fd]

\* file_t object = file_t::open_ro(path) or open_rw(path): the local
\* result is opened and moved into the object.
Opened(f, object) ==
  Leave(MoveConstruct(Open(f, "result"), object, "result"), "result")

\* open_shard up to its checks: its local is opened by open_ro.
ShardOpened(f) == Opened(f, "shard")

\* open_shard that throws: its local goes out of scope.
ShardRefused(f) == Leave(ShardOpened(f), "shard")

\* file_t in = open_shard(...): the local is moved into a new object.
ShardConstructed(f) ==
  Leave(MoveConstruct(ShardOpened(f), "in", "shard"), "shard")

\* in = open_shard(...): the local is move-assigned to in.
ShardAssigned(f) == Leave(MoveAssign(ShardOpened(f), "in", "shard"), "shard")

\* A throw out of split or join, or their return: out and in go out of
\* scope, in the reverse of the order they were made in.
Unwound(f) == Leave(Leave(f, "out"), "in")

\* ---------------------------------------------------------------- split
SplitFrame(file_name, max_shard_size) ==
  [pc |-> "open", file_name |-> file_name, max_shard_size |-> max_shard_size,
   in_size |-> 0, in_pos |-> 0, crc |-> 0, big_shard_count |-> 0,
   shard_count |-> 0, shard_hdr |-> ZeroHdr, shard_idx |-> 0,
   shard_size |-> 0, out |-> NoPath, result |-> NoResult]

JoinIdle ==
  [pc |-> "idle", file_names |-> <<>>, master_shard_hdr |-> ZeroHdr,
   shard_map |-> <<>>, i |-> 0, shard_hdr |-> ZeroHdr, in |-> NoPath,
   in_pos |-> 0, out |-> NoPath, out_pos |-> 0, total_crc |-> 0,
   shard_crc |-> 0, todo |-> {}, created |-> FALSE, result |-> NoResult]

Init ==
  \E file_name \in Paths, size \in 0..MaxSize, seed \in 0..MaxSeed,
     max_shard_size \in 1..MaxM :
    /\ disk = (file_name :> [hdr |-> NoHdr, data |-> Content(size, seed)])
    /\ sp = SplitFrame(file_name, max_shard_size)
    /\ jn = JoinIdle
    /\ orig = Content(size, seed)
    /\ damage = NoDamage
    /\ cli = CliIdle
    /\ fds = NoFds

RECURSIVE CrcPass(_, _, _)
\* The first pass over the input: update_crc on one buffer after the other
\* until read_at_most returns 0.
CrcPass(crc, bytes, pos) ==
  LET piece == ReadAtMost(bytes, pos, BufSize)
  IN  IF piece = <<>> THEN crc
      ELSE CrcPass(update_crc(crc, piece), bytes, pos + Len(piece))

\* open_ro, which throws when the file cannot be opened, then
\* get_size_and_mode, the CRC pass and seek(0, SEEK_SET).
SplitOpen ==
  /\ sp.pc = "open"
  /\ IF sp.file_name \notin DOMAIN disk
     THEN sp' = [sp EXCEPT !.pc = "failed",
                           !.result = Failure("could not open", sp.file_name)]
     ELSE sp' = [sp EXCEPT !.pc = "count",
                           !.in_size = FileSize(disk[sp.file_name]),
                           !.crc = CrcPass(0, disk[sp.file_name].data, 0),
                           !.in_pos = 0]
  /\ fds' = IF sp'.pc = "failed" THEN fds ELSE Opened(fds, "in")
  /\ UNCHANGED <<disk, jn, orig, damage, cli>>

\* (in_size + max_shard_size - 1) / max_shard_size.
BigShardCount(in_size, max_shard_size) ==
  (in_size + max_shard_size - 1) \div max_shard_size

\* What the division of split.cc:45 can give.  With max_shard_size = 0 it
\* is a division by zero, which is undefined: the process is killed by
\* SIGFPE (the x86 div instruction) or the quotient is 0 (the AArch64 udiv
\* instruction).
BigShardCounts(in_size, max_shard_size) ==
  IF max_shard_size = 0
  THEN {[sigfpe |-> TRUE, quotient |-> 0], [sigfpe |-> FALSE, quotient |-> 0]}
  ELSE {[sigfpe |-> FALSE,
         quotient |-> BigShardCount(in_size, max_shard_size)]}

\* The shard count, refused when it does not fit a uint16_t.
SplitCount ==
  /\ sp.pc = "count"
  /\ \E division \in BigShardCounts(sp.in_size, sp.max_shard_size) :
       LET big_shard_count == division.quotient IN
       IF division.sigfpe
       THEN sp' = [sp EXCEPT !.pc = "crashed",
                             !.result = Failure("SIGFPE", NoPath)]
       ELSE IF big_shard_count > U16Max
       THEN sp' = [sp EXCEPT !.pc = "failed",
                             !.big_shard_count = big_shard_count,
                             !.result = Failure("too big", NoPath)]
       ELSE sp' = [sp EXCEPT !.pc = "name",
                             !.big_shard_count = big_shard_count,
                             !.shard_count = big_shard_count]
  /\ fds' = IF sp'.pc = "failed" THEN Unwound(fds) ELSE fds
  /\ UNCHANGED <<disk, jn, orig, damage, cli>>

\* A name check that lets through a name of NameCap characters.
NameTooLong_OffByOne(name) == Len(name) > NameCap

\* strlen(name) >= sizeof(shard_hdr.original_name).
NameTooLong(name) == Len(name) >= NameCap

\* The header fields shared by all shards, and the name check.
SplitName ==
  /\ sp.pc = "name"
  /\ LET name == BaseName(sp.file_name)
     IN  IF NameTooLong(name)
         THEN sp' = [sp EXCEPT !.pc = "failed",
                               !.result = Failure("name too long", NoPath)]
         ELSE sp' = [sp EXCEPT
                       !.pc = "loop",
                       !.shard_hdr = [ZeroHdr EXCEPT
                                        !.magic = ExpectedMagic,
                                        !.shard_count = sp.shard_count,
                                        !.original_size = sp.in_size,
                                        !.original_crc = sp.crc,
                                        !.original_name = name],
                       !.shard_idx = 1]
  /\ fds' = IF sp'.pc = "failed" THEN Unwound(fds) ELSE fds
  /\ UNCHANGED <<disk, jn, orig, damage, cli>>

\* shard_idx <= shard_count, the test of the for loop.
SplitLoop ==
  /\ sp.pc = "loop"
  /\ IF sp.shard_idx <= sp.shard_count
     THEN sp' = [sp EXCEPT !.pc = "shard"]
     ELSE sp' = [sp EXCEPT !.pc = "done", !.result = Success]
  /\ fds' = IF sp'.pc = "done" THEN Unwound(fds) ELSE fds
  /\ UNCHANGED <<disk, jn, orig, damage, cli>>

\* max_shard_size - sizeof(shard_hdr_t) in uint64_t: a negative difference
\* wraps to a value within HeaderSize of 2^64, above every file size (an
\* off_t, below 2^63), so that the minimum with in_size is in_size.
PayloadSize(max_shard_size, in_size) ==
  IF max_shard_size >= HeaderSize
  THEN Min(max_shard_size - HeaderSize, in_size)
  ELSE in_size

\* A shard_size that leaves the header out.
ShardFileSize_NoHeader(shard_size) == shard_size

\* shard_hdr.shard_size: the payload and the header before it.
ShardFileSize(shard_size) == shard_size + HeaderSize

\* open_rw of the shard, its size, and the first write of the header.
SplitShard ==
  /\ sp.pc = "shard"
  /\ LET out == make_shard_name(sp.file_name, sp.shard_idx, sp.shard_count)
         shard_size == PayloadSize(sp.max_shard_size, sp.in_size)
         hdr == [sp.shard_hdr EXCEPT !.shard_idx = sp.shard_idx,
                                     !.shard_size = ShardFileSize(shard_size)]
     IN  /\ disk' = (out :> [hdr |-> hdr, data |-> <<>>]) @@ disk
         /\ sp' = [sp EXCEPT !.pc = "copy", !.out = out, !.shard_hdr = hdr,
                             !.shard_size = shard_size,
                             !.in_size = sp.in_size - shard_size,
                             !.crc = 0]
  /\ fds' = Opened(fds, "out")
  /\ UNCHANGED <<jn, orig, damage, cli>>

\* A copy loop that also writes the CRC so far into the header at the
\* start of the shard file.
SplitCopy_IntoHeader ==
  /\ sp.pc = "copy"
  /\ sp.shard_size > 0
  /\ LET piece == ReadAtMost(disk[sp.file_name].data, sp.in_pos,
                             Min(BufSize, sp.shard_size))
     IN  /\ disk' = [disk EXCEPT
                       ![sp.out].data = @ \o piece,
                       ![sp.out].hdr.shard_crc = update_crc(sp.crc, piece)]
         /\ sp' = [sp EXCEPT !.crc = update_crc(sp.crc, piece),
                             !.in_pos = sp.in_pos + Len(piece),
                             !.shard_size = sp.shard_size - Len(piece)]
  /\ UNCHANGED <<jn, orig, damage, cli, fds>>

\* One turn of the copy loop, or its end when shard_size is 0.
SplitCopy ==
  /\ sp.pc = "copy"
  /\ sp.shard_size > 0
  /\ LET piece == ReadAtMost(disk[sp.file_name].data, sp.in_pos,
                             Min(BufSize, sp.shard_size))
     IN  /\ disk' = [disk EXCEPT ![sp.out].data = @ \o piece]
         /\ sp' = [sp EXCEPT !.crc = update_crc(sp.crc, piece),
                             !.in_pos = sp.in_pos + Len(piece),
                             !.shard_size = sp.shard_size - Len(piece)]
  /\ UNCHANGED <<jn, orig, damage, cli, fds>>

\* ++shard_idx on a uint16_t.
NextIdx(shard_idx) == (shard_idx + 1) % (U16Max + 1)

\* The shard CRC, seek(0, SEEK_SET), the second write of the header, the
\* close of the shard at the end of the loop body, and ++shard_idx.
SplitCommit ==
  /\ sp.pc = "copy"
  /\ sp.shard_size = 0
  /\ LET hdr == [sp.shard_hdr EXCEPT !.shard_crc = sp.crc]
     IN  /\ disk' = [disk EXCEPT ![sp.out].hdr = hdr]
         /\ sp' = [sp EXCEPT !.pc = "loop", !.shard_hdr = hdr,
                             !.out = NoPath,
                             !.shard_idx = NextIdx(sp.shard_idx)]
  /\ fds' = Leave(fds, "out")
  /\ UNCHANGED <<jn, orig, damage, cli>>

Split == SplitOpen \/ SplitCount \/ SplitName \/ SplitLoop \/ SplitShard
           \/ SplitCopy \/ SplitCommit

SplitEnded == sp.pc \in {"done", "failed"}

\* ----------------------------------------------------------------- join
\* Whether a file holds a well-formed shard header at its start.
IsShard(f) == f.hdr.magic = ExpectedMagic

\* open_shard(path, shard_hdr): "ok", or what makes the file no shard.
OpenShard(f) ==
  IF FileSize(f) < HeaderSize THEN "too small"
  ELSE IF f.hdr.magic # ExpectedMagic \/ f.hdr.shard_size # FileSize(f)
       THEN "not a shard"
       ELSE "ok"

\* The lists of paths join may be called with: files of the disk, in any
\* order, with repetitions, and the empty list.
FileLists == UNION {[1..n -> DOMAIN disk] : n \in 0..MaxList}

\* The call of join on a list of file names, and the test for no names.
JoinStart ==
  /\ jn.pc = "idle"
  /\ SplitEnded
  /\ \E file_names \in FileLists :
       IF file_names = <<>>
       THEN jn' = [jn EXCEPT !.pc = "failed",
                             !.result = Failure("no shards", NoPath)]
       ELSE jn' = [jn EXCEPT !.pc = "master", !.file_names = file_names]
  /\ UNCHANGED <<disk, sp, orig, damage, cli, fds>>

\* The output file made as soon as the master header has given its name,
\* before the number of names is checked.
JoinMaster_CreatesFirst ==
  /\ jn.pc = "master"
  /\ LET path == jn.file_names[1]
         opened == OpenShard(disk[path])
         hdr == disk[path].hdr
     IN  IF opened # "ok"
         THEN /\ jn' = [jn EXCEPT !.pc = "failed",
                                  !.result = Failure(opened, path)]
              /\ disk' = disk
         ELSE /\ disk' = (hdr.original_name :> EmptyFile) @@ disk
              /\ IF Len(jn.file_names) # hdr.shard_count
                 THEN jn' = [jn EXCEPT !.pc = "failed", !.in = path,
                                       !.master_shard_hdr = hdr,
                                       !.out = hdr.original_name,
                                       !.created = TRUE,
                                       !.result = Failure("count", NoPath)]
                 ELSE jn' = [jn EXCEPT !.pc = "validate", !.in = path,
                                       !.master_shard_hdr = hdr,
                                       !.out = hdr.original_name,
                                       !.created = TRUE,
                                       !.shard_map = (hdr.shard_idx :> path),
                                       !.i = 1]
  /\ fds' = IF jn'.pc # "failed"
            THEN Opened(ShardConstructed(fds), "out")
            ELSE IF jn'.result.kind = "count"
            THEN Unwound(Opened(ShardConstructed(fds), "out"))
            ELSE ShardRefused(fds)
  /\ UNCHANGED <<sp, orig, damage, cli>>

\* The first shard gives the master header; the number of names must be
\* its shard_count.
JoinMaster ==
  /\ jn.pc = "master"
  /\ LET path == jn.file_names[1]
         opened == OpenShard(disk[path])
         hdr == disk[path].hdr
     IN  IF opened # "ok"
         THEN jn' = [jn EXCEPT !.pc = "failed",
                               !.result = Failure(opened, path)]
         ELSE IF Len(jn.file_names) # hdr.shard_count
         THEN jn' = [jn EXCEPT !.pc = "failed", !.in = path,
                               !.master_shard_hdr = hdr,
                               !.result = Failure("count", NoPath)]
         ELSE jn' = [jn EXCEPT !.pc = "validate", !.in = path,
                               !.master_shard_hdr = hdr,
                               !.shard_map = (hdr.shard_idx :> path),
                               !.i = 1]
  /\ fds' = IF jn'.pc # "failed" THEN ShardConstructed(fds)
            ELSE IF jn'.result.kind = "count"
            THEN Unwound(ShardConstructed(fds))
            ELSE ShardRefused(fds)
  /\ UNCHANGED <<disk, sp, orig, damage, cli>>

\* The fields every shard of a set shares with the master.
Matches(shard_hdr, master_shard_hdr) ==
  /\ shard_hdr.shard_count = master_shard_hdr.shard_count
  /\ shard_hdr.original_size = master_shard_hdr.original_size
  /\ shard_hdr.original_crc = master_shard_hdr.original_crc
  /\ shard_hdr.original_name = master_shard_hdr.original_name

\* operator[] in place of emplace: the later path takes the key.
Emplace_Overwrites(shard_map, shard_idx, path) ==
  [map |-> (shard_idx :> path) @@ shard_map, second |-> TRUE]

\* shard_map.emplace(shard_idx, path): the map is left as it is when it
\* has the key, and second tells whether the pair went in.
Emplace(shard_map, shard_idx, path) ==
  IF shard_idx \in DOMAIN shard_map
  THEN [map |-> shard_map, second |-> FALSE]
  ELSE [map |-> (shard_idx :> path) @@ shard_map, second |-> TRUE]

\* One turn of the loop over file_names[1..]: open, match, emplace.
JoinValidate ==
  /\ jn.pc = "validate"
  /\ jn.i < Len(jn.file_names)
  /\ LET path == jn.file_names[jn.i + 1]
         opened == OpenShard(disk[path])
         hdr == disk[path].hdr
         pair == Emplace(jn.shard_map, hdr.shard_idx, path)
     IN  IF opened # "ok"
         THEN jn' = [jn EXCEPT !.pc = "failed",
                               !.result = Failure(opened, path)]
         ELSE IF ~Matches(hdr, jn.master_shard_hdr)
         THEN jn' = [jn EXCEPT !.pc = "failed", !.in = path,
                               !.shard_hdr = hdr,
                               !.result = Failure("mismatch", path)]
         ELSE IF ~pair.second
         THEN jn' = [jn EXCEPT !.pc = "failed", !.in = path,
                               !.shard_hdr = hdr,
                               !.shard_map = pair.map,
                               !.result = Failure("duplicate", path)]
         ELSE jn' = [jn EXCEPT !.in = path, !.shard_hdr = hdr,
                               !.shard_map = pair.map,
                               !.i = jn.i + 1]
  /\ fds' = IF jn'.pc # "failed" THEN ShardAssigned(fds)
            ELSE IF jn'.result.kind \in {"mismatch", "duplicate"}
            THEN Unwound(ShardAssigned(fds))
            ELSE Unwound(ShardRefused(fds))
  /\ UNCHANGED <<disk, sp, orig, damage, cli>>

\* open_rw of the output file, named by the master's original_name.
JoinCreate ==
  /\ jn.pc = "validate"
  /\ jn.i >= Len(jn.file_names)
  /\ LET out == jn.master_shard_hdr.original_name
     IN  /\ disk' = (out :> EmptyFile) @@ disk
         /\ jn' = [jn EXCEPT !.pc = "next", !.out = out, !.out_pos = 0,
                             !.total_crc = 0, !.created = TRUE,
                             !.todo = DOMAIN jn.shard_map]
  /\ fds' = Opened(fds, "out")
  /\ UNCHANGED <<sp, orig, damage, cli>>

\* The next shard of the map, in the order of its keys, opened again.
JoinNext ==
  /\ jn.pc = "next"
  /\ jn.todo # {}
  /\ LET path == jn.shard_map[SetMin(jn.todo)]
         opened == OpenShard(disk[path])
     IN  IF opened # "ok"
         THEN jn' = [jn EXCEPT !.pc = "failed",
                               !.result = Failure(opened, path)]
         ELSE jn' = [jn EXCEPT !.pc = "copy", !.in = path,
                               !.in_pos = HeaderSize,
                               !.shard_hdr = disk[path].hdr,
                               !.shard_crc = 0]
  /\ fds' = IF jn'.pc # "failed" THEN ShardAssigned(fds)
            ELSE Unwound(ShardRefused(fds))
  /\ UNCHANGED <<disk, sp, orig, damage, cli>>

\* What read_at_most gives of the shard's bytes after its header.
JoinPiece == ReadAtMost(disk[jn.in].data, jn.in_pos - HeaderSize, BufSize)

\* One turn of the copy loop: a piece that is not empty.
JoinCopy ==
  /\ jn.pc = "copy"
  /\ JoinPiece # <<>>
  /\ disk' = [disk EXCEPT ![jn.out].data = @ \o JoinPiece]
  /\ jn' = [jn EXCEPT !.total_crc = update_crc(jn.total_crc, JoinPiece),
                      !.shard_crc = update_crc(jn.shard_crc, JoinPiece),
                      !.in_pos = jn.in_pos + Len(JoinPiece),
                      !.out_pos = jn.out_pos + Len(JoinPiece)]
  /\ UNCHANGED <<sp, orig, damage, cli, fds>>

\* A join that does not look at the shard's CRC.
Damaged_Skipped(shard_hdr, shard_crc) == FALSE

\* shard_hdr.shard_crc != shard_crc.
Damaged(shard_hdr, shard_crc) == shard_hdr.shard_crc # shard_crc

\* The end of the copy loop and the check of the shard's CRC.
JoinVerify ==
  /\ jn.pc = "copy"
  /\ JoinPiece = <<>>
  /\ IF Damaged(jn.shard_hdr, jn.shard_crc)
     THEN jn' = [jn EXCEPT !.pc = "failed",
                           !.result = Failure("damaged", jn.in)]
     ELSE jn' = [jn EXCEPT !.pc = "next",
                           !.todo = jn.todo \ {SetMin(jn.todo)}]
  /\ fds' = IF jn'.pc = "failed" THEN Unwound(fds) ELSE fds
  /\ UNCHANGED <<disk, sp, orig, damage, cli>>

\* The size and the CRC of the output against the master header.
JoinFinish ==
  /\ jn.pc = "next"
  /\ jn.todo = {}
  /\ IF \/ jn.out_pos # jn.master_shard_hdr.original_size
        \/ jn.total_crc # jn.master_shard_hdr.original_crc
     THEN jn' = [jn EXCEPT !.pc = "failed",
                           !.result = Failure("not reconstructed", NoPath)]
     ELSE jn' = [jn EXCEPT !.pc = "done", !.result = Success]
  /\ fds' = Unwound(fds)
  /\ UNCHANGED <<disk, sp, orig, damage, cli>>

Join == JoinStart \/ JoinMaster \/ JoinValidate \/ JoinCreate \/ JoinNext
          \/ JoinCopy \/ JoinVerify \/ JoinFinish

\* ------------------------------------------------------ the command line
\* The arguments tried: the three flags, a number, the name of the file on
\* the disk (long enough for a prefix) and a name of no file (too short
\* for a prefix).
ArgS == <<"-", "s">>

ArgD == <<"-", "d">>

ArgN == <<"-", "n">>

ArgOne == <<"1">>

ArgFile == <<"a", "b", "c">>

ArgOther == <<"x">>

Args == {ArgS, ArgD, ArgN, ArgOne, ArgFile, ArgOther}

ArgLists == UNION {[1..n -> Args] : n \in 0..MaxArgs}

DigitChars == {"0", "1", "2", "3", "4", "5", "6", "7", "8", "9"}

DigitValue(c) == CHOOSE n \in 0..9 : Digit(n) = c

RECURSIVE AtoiDigits(_, _)
AtoiDigits(str, acc) ==
  IF str = <<>> \/ Head(str) \notin DigitChars THEN acc
  ELSE AtoiDigits(Tail(str), acc * 10 + DigitValue(Head(str)))

\* atoi(str): the number its leading decimal digits spell, after a sign;
\* 0 when there is no digit.
Atoi(str) ==
  IF str # <<>> /\ Head(str) = "-" THEN 0 - AtoiDigits(Tail(str), 0)
  ELSE AtoiDigits(str, 0)

\* What app_params[++i] can give.  Past the end of the vector the read is
\* undefined: the process is killed by SIGSEGV, or a string of whatever
\* the memory holds comes back.
ParamAfter(app_params, i) ==
  IF i + 1 <= Len(app_params)
  THEN {[sigsegv |-> FALSE, str |-> app_params[i + 1]]}
  ELSE {[sigsegv |-> TRUE, str |-> <<>>]}
         \cup {[sigsegv |-> FALSE, str |-> g] : g \in {<<>>, ArgOne, ArgFile}}

\* The constructor of app_t up to the parse loop: argv[1..] is taken into
\* app_params and the preferences get their defaults.
CliStart(app_params) ==
  [CliIdle EXCEPT !.pc = "parse", !.app_params = app_params, !.i = 0,
                  !.max_shard_size = 0, !.make_directory = FALSE,
                  !.shard_prefix = <<"s", "h", "a", "r", "d">>]

\* A throw inside the parse loop: nested into "You've supplied a bad
\* argument.", caught by main, which returns EXIT_FAILURE.
CliBadArgument == [cli EXCEPT !.pc = "exited", !.result = "EXIT_FAILURE"]

CliKilled(signal) == [cli EXCEPT !.pc = "exited", !.result = signal]

\* One turn of the parse loop, on app_params[i] (cli.i counts from 0 as i
\* does; the sequence is indexed from 1).
CliArg ==
  /\ cli.pc = "parse"
  /\ cli.i < Len(cli.app_params)
  /\ LET arg == cli.app_params[cli.i + 1]
     IN  IF arg = ArgS
         THEN \E param \in ParamAfter(cli.app_params, cli.i + 1) :
                IF param.sigsegv THEN cli' = CliKilled("SIGSEGV")
                ELSE IF Atoi(param.str) < 1 THEN cli' = CliBadArgument
                ELSE cli' = [cli EXCEPT
                               !.max_shard_size = Atoi(param.str) * MiB,
                               !.i = cli.i + 2]
         ELSE IF arg = ArgD
         THEN cli' = [cli EXCEPT !.make_directory = TRUE, !.i = cli.i + 1]
         ELSE IF arg = ArgN
         THEN \E param \in ParamAfter(cli.app_params, cli.i + 1) :
                IF param.sigsegv THEN cli' = CliKilled("SIGSEGV")
                ELSE IF Len(param.str) < MinPrefix THEN cli' = CliBadArgument
                ELSE cli' = [cli EXCEPT !.shard_prefix = param.str,
                                        !.i = cli.i + 2]
         ELSE cli' = [cli EXCEPT !.user_files = Append(@, arg),
                                 !.i = cli.i + 1]
  /\ UNCHANGED <<disk, sp, jn, orig, damage, fds>>

\* operator(): usage for no argument; split of app_params[0] when one file
\* name was found; join of app_params otherwise.  The run of join on its
\* list is the Join actions.
CliRun ==
  /\ cli.pc = "parse"
  /\ cli.i >= Len(cli.app_params)
  /\ IF Len(cli.app_params) = 0
     THEN /\ cli' = [cli EXCEPT !.pc = "exited",
                                !.call = [NoCall EXCEPT !.op = "usage"],
                                !.result = "EXIT_SUCCESS"]
          /\ sp' = sp
     ELSE IF Len(cli.user_files) = 1
     THEN /\ cli' = [cli EXCEPT
                       !.pc = "split",
                       !.call = [op |-> "split",
                                 file_names |-> <<cli.app_params[1]>>,
                                 max_shard_size |-> cli.max_shard_size]]
          /\ sp' = SplitFrame(cli.app_params[1], cli.max_shard_size)
     ELSE /\ cli' = [cli EXCEPT
                       !.pc = "join",
                       !.call = [op |-> "join",
                                 file_names |-> cli.app_params,
                                 max_shard_size |-> 0]]
          /\ sp' = sp
  /\ UNCHANGED <<disk, jn, orig, damage, fds>>

\* The end of the process after split: its return value, EXIT_FAILURE
\* from main's catch, or the signal that killed it.
CliExit ==
  /\ cli.pc = "split"
  /\ sp.pc \in {"done", "failed", "crashed"}
  /\ cli' = [cli EXCEPT
               !.pc = "exited",
               !.result = IF sp.pc = "done" THEN "EXIT_SUCCESS"
                          ELSE IF sp.pc = "failed" THEN "EXIT_FAILURE"
                          ELSE sp.result.kind]
  /\ UNCHANGED <<disk, sp, jn, orig, damage, fds>>

\* main on a command line, with one ordinary file on the disk.
CliInit ==
  \E app_params \in ArgLists, size \in 0..MaxSize :
    /\ disk = (ArgFile :> [hdr |-> NoHdr, data |-> Content(size, 1)])
    /\ sp = [SplitFrame(NoPath, 0) EXCEPT !.pc = "idle"]
    /\ jn = JoinIdle
    /\ orig = Content(size, 1)
    /\ damage = NoDamage
    /\ cli = CliStart(app_params)
    /\ fds = NoFds

CliNext == CliArg \/ CliRun \/ Split \/ CliExit

CliSpec == CliInit /\ [][CliNext]_vars

\* ------------------------------------------------------ the environment
\* Between a split and a join the shards are carried elsewhere, and one of
\* them may come back changed.  At most one change is made.
MayDamage == SplitEnded /\ jn.pc = "idle" /\ damage = NoDamage

\* One payload byte of one shard takes another value; the header and the
\* size of the file stay.
DamagePayload ==
  /\ MayDamage
  /\ \E path \in DOMAIN disk :
       /\ IsShard(disk[path])
       /\ \E k \in 1..Len(disk[path].data), b \in 0..(ByteMod - 1) :
            /\ b # disk[path].data[k]
            /\ disk' = [disk EXCEPT ![path].data[k] = b]
            /\ damage' = [kind |-> "payload", path |-> path]
  /\ UNCHANGED <<sp, jn, orig, cli, fds>>

\* The shard_idx field of one shard's header takes another value.
DamageIndex ==
  /\ MayDamage
  /\ \E path \in DOMAIN disk :
       /\ IsShard(disk[path])
       /\ \E idx \in 0..U16Max :
            /\ idx # disk[path].hdr.shard_idx
            /\ disk' = [disk EXCEPT ![path].hdr.shard_idx = idx]
            /\ damage' = [kind |-> "index", path |-> path]
  /\ UNCHANGED <<sp, jn, orig, cli, fds>>

\* The original_crc field of one shard's header takes another value.
DamageMeta ==
  /\ MayDamage
  /\ \E path \in DOMAIN disk :
       /\ IsShard(disk[path])
       /\ disk' = [disk EXCEPT
                     ![path].hdr.original_crc = (@ + 1) % CrcMod]
       /\ damage' = [kind |-> "meta", path |-> path]
  /\ UNCHANGED <<sp, jn, orig, cli, fds>>

\* One shard is given the name of the original, its header's
\* original_name, in the working directory; rename(2) takes the place of a
\* file of that name.
Rename ==
  /\ MayDamage
  /\ \E path \in DOMAIN disk :
       /\ IsShard(disk[path])
       /\ LET name == disk[path].hdr.original_name
          IN  /\ disk' = [q \in (DOMAIN disk \ {path}) \cup {name} |->
                           IF q = name THEN disk[path] ELSE disk[q]]
              /\ damage' = [kind |-> "rename", path |-> name]
  /\ UNCHANGED <<sp, jn, orig, cli, fds>>

Damage == DamagePayload \/ DamageIndex \/ DamageMeta \/ Rename

\* ------------------------------------------------------------ the claims
\* The source as split found it: its size, its bytes, the limit given.
SourceSize == Len(orig)

Limit == sp.max_shard_size

\* ceil(s / m): the least n with n * m >= s.
CeilDiv(s, m) == CHOOSE n \in 0..s : n * m >= s /\ \A k \in 0..s : k * m >= s => n <= k

\* The CRC of a whole byte string, taken in one call.
WholeCrc(bytes) == update_crc(0, bytes)

\* The files split has put on the disk.
Written == DOMAIN disk \ {sp.file_name}

\* Split has returned success, and nothing has touched the disk since.
AfterSplit == sp.pc = "done" /\ jn.pc = "idle" /\ damage = NoDamage

Numeral(n) == <<"1", "2", "3", "4", "5", "6", "7", "8", "9">>[n]

\* "<source_path>@<shard_idx>.<shard_count>" for counts of one digit.
ShardName(i, n) == sp.file_name \o <<"@", Numeral(i), ".", Numeral(n)>>

\* C2 (as claimed): after a split with a limit above the header size, every
\* shard but the last has a payload of Limit - HeaderSize bytes and the
\* last has SourceSize - (shard_count - 1) * (Limit - HeaderSize), so that
\* the payloads add up to the source.
C2_PayloadSizing ==
  (AfterSplit /\ Limit > HeaderSize) =>
    \A p \in Written :
      LET h == disk[p].hdr
      IN  Len(disk[p].data) =
            IF h.shard_idx < h.shard_count
            THEN Limit - HeaderSize
            ELSE SourceSize - (h.shard_count - 1) * (Limit - HeaderSize)

C4_EmptySource ==
  (AfterSplit /\ SourceSize = 0) =>
    \E p \in Written :
      /\ Written = {p}
      /\ FileSize(disk[p]) = HeaderSize
      /\ disk[p].hdr.shard_idx = 1
      /\ disk[p].hdr.shard_count = 1

FormatErrors == {"too big", "name too long"}

ShardsOnDisk == {p \in DOMAIN disk : IsShard(disk[p])}

\* C9 (as claimed): a base name of NameCap bytes or more with its
\* terminator makes split fail with a format error and no shard file, and
\* every name in a written header is shorter than NameCap with its
\* terminator.
C9_NameOverflow ==
  /\ Len(BaseName(sp.file_name)) + 1 >= NameCap =>
       /\ ShardsOnDisk = {}
       /\ SplitEnded => sp.result.kind \in FormatErrors
  /\ \A p \in ShardsOnDisk : Len(disk[p].hdr.original_name) + 1 < NameCap

\* C9 (amended): a base name of NameCap characters or more, its terminator
\* not counted, makes split fail with a format error before any shard file
\* is made; a name of NameCap bytes with its terminator is accepted, and
\* every name in a written header fits the field with its terminator.
C9_NameOverflowAmended ==
  /\ Len(BaseName(sp.file_name)) >= NameCap =>
       /\ ShardsOnDisk = {}
       /\ sp.pc \notin {"open", "count", "name"} =>
            sp.pc = "failed" /\ sp.result.kind \in FormatErrors
  /\ \A p \in ShardsOnDisk : Len(disk[p].hdr.original_name) + 1 <= NameCap

C9_Witness ==
  /\ sp.result.kind = "name too long"
  /\ Len(BaseName(sp.file_name)) = NameCap

\* C10: after a successful split every shard file has the magic, an index
\* within 1..shard_count, a shard_size that is the size of the file, the
\* CRC of its own payload, and the count, size, CRC and base name of the
\* source, the same in all shards.
C10_HeaderInvariants ==
  AfterSplit =>
    \A p \in Written :
      LET h == disk[p].hdr
      IN  /\ h.magic = ExpectedMagic
          /\ 1 <= h.shard_idx /\ h.shard_idx <= h.shard_count
          /\ h.shard_size = FileSize(disk[p])
          /\ h.shard_size = HeaderSize + Len(disk[p].data)
          /\ h.shard_crc = WholeCrc(disk[p].data)
          /\ h.shard_count = Cardinality(Written)
          /\ h.original_size = SourceSize
          /\ h.original_crc = WholeCrc(orig)
          /\ h.original_name = BaseName(sp.file_name)
          /\ \A q \in Written :
               /\ disk[q].hdr.shard_count = h.shard_count
               /\ disk[q].hdr.original_size = h.original_size
               /\ disk[q].hdr.original_crc = h.original_crc
               /\ disk[q].hdr.original_name = h.original_name

C10_Witness ==
  /\ AfterSplit
  /\ Cardinality(Written) = 2
  /\ \A p \in Written : Len(disk[p].data) >= 3


JoinEnded == jn.pc \in {"done", "failed"}

\* The output file of a join of the source's shards: the base name of the
\* source, in the working directory.
Dest == BaseName(sp.file_name)

\* The list names every shard on the disk exactly once.
IsPermutation(list, set) ==
  /\ Len(list) = Cardinality(set)
  /\ {list[i] : i \in 1..Len(list)} = set

\* Join was run on the complete set of shards a successful split made.
JoinedCompleteSet ==
  /\ sp.pc = "done"
  /\ JoinEnded
  /\ IsPermutation(jn.file_names, ShardsOnDisk)

\* C1 (as claimed): for a source of one byte or more and a limit above the
\* header size, split and then join on the complete shard set returns
\* success and writes the source's bytes, size and CRC.
C1_RoundTrip ==
  (JoinedCompleteSet /\ damage = NoDamage /\ SourceSize >= 1
     /\ Limit >= HeaderSize + 1) =>
    /\ jn.result = Success
    /\ disk[Dest] = [hdr |-> NoHdr, data |-> orig]
    /\ FileSize(disk[Dest]) = SourceSize
    /\ WholeCrc(disk[Dest].data) = WholeCrc(orig)

\* C5: after one payload byte of one shard of a complete set has changed,
\* join fails with the damaged error naming that shard, and no join of a
\* list with that shard in it returns success.
C5_CorruptionDetected ==
  damage.kind = "payload" =>
    /\ JoinedCompleteSet => jn.result = Failure("damaged", damage.path)
    /\ (JoinEnded /\ \E i \in 1..Len(jn.file_names) :
                       jn.file_names[i] = damage.path) =>
         jn.result # Success

C5_Witness ==
  /\ damage.kind = "payload"
  /\ JoinedCompleteSet
  /\ jn.result = Failure("damaged", damage.path)
  /\ disk[damage.path].hdr.shard_idx = 2
  /\ jn.file_names[1] = damage.path

RECURSIVE ConcatPayloads(_, _)
\* The payloads of shards i..n of the source, one after the other.
ConcatPayloads(i, n) ==
  IF i > n THEN <<>>
  ELSE disk[ShardName(i, n)].data \o ConcatPayloads(i + 1, n)

\* C6 (as claimed): join of a complete shard set, made by a split with a
\* limit above the header size, returns success in any order of the list
\* and writes the payloads in the order of their shard_idx.
C6_OrderIndependent ==
  (JoinedCompleteSet /\ damage = NoDamage /\ ShardsOnDisk # {}
     /\ Limit > HeaderSize) =>
    /\ jn.result = Success
    /\ disk[Dest].hdr = NoHdr
    /\ disk[Dest].data = ConcatPayloads(1, sp.shard_count)

ValidationErrors ==
  {"no shards", "too small", "not a shard", "count", "mismatch", "duplicate"}

\* The list of paths passes every check of join's validation pass on the
\* files as they are now: it is not empty, every file is a shard, the list
\* is as long as the master's shard_count, every shard shares the master's
\* metadata and no shard_idx comes twice.
ListPasses ==
  LET names == jn.file_names
      hdr(i) == disk[names[i]].hdr
  IN  /\ names # <<>>
      /\ \A i \in 1..Len(names) : OpenShard(disk[names[i]]) = "ok"
      /\ Len(names) = hdr(1).shard_count
      /\ \A i \in 1..Len(names) : Matches(hdr(i), hdr(1))
      /\ \A i, j \in 1..Len(names) :
           i # j => hdr(i).shard_idx # hdr(j).shard_idx

Repeats(j) ==
  \E i \in 1..(j - 1) :
    /\ IsShard(disk[jn.file_names[i]])
    /\ IsShard(disk[jn.file_names[j]])
    /\ disk[jn.file_names[i]].hdr.shard_idx
         = disk[jn.file_names[j]].hdr.shard_idx

HasDuplicate == \E j \in 1..Len(jn.file_names) : Repeats(j)

FirstRepeat == SetMin({j \in 1..Len(jn.file_names) : Repeats(j)})

\* C8 (as claimed): a list with two files of the same shard_idx makes join
\* fail with the duplicate error naming the later of the two.
C8_Duplicate ==
  (JoinEnded /\ HasDuplicate) =>
    /\ jn.result.kind = "duplicate"
    /\ \E j \in 1..Len(jn.file_names) :
         Repeats(j) /\ jn.result.path = jn.file_names[j]

\* Every file of the list up to the j-th passes the checks join makes
\* before it looks for a duplicate.
PassesUpTo(j) ==
  /\ OpenShard(disk[jn.file_names[1]]) = "ok"
  /\ Len(jn.file_names) = disk[jn.file_names[1]].hdr.shard_count
  /\ \A k \in 2..j :
       /\ OpenShard(disk[jn.file_names[k]]) = "ok"
       /\ Matches(disk[jn.file_names[k]].hdr, disk[jn.file_names[1]].hdr)

\* C8 (amended): a list with two files of the same shard_idx never makes
\* join return success; join fails with the duplicate error, naming the
\* first file of the list whose shard_idx an earlier file carries, when
\* the list has master.shard_count names and every file up to that one is
\* a shard that matches the master, and with the not-a-shard, count or
\* mismatch error otherwise.
C8_DuplicateAmended ==
  /\ (JoinEnded /\ HasDuplicate) =>
       /\ jn.result # Success
       /\ IF PassesUpTo(FirstRepeat)
          THEN jn.result = Failure("duplicate", jn.file_names[FirstRepeat])
          ELSE jn.result.kind \in {"too small", "not a shard", "count",
                                   "mismatch"}
  /\ jn.result.kind = "duplicate" => HasDuplicate

C8_Witness ==
  /\ jn.result.kind = "duplicate"
  /\ Len(jn.file_names) = 3
  /\ damage.kind = "index"
  /\ jn.result.path = jn.file_names[3]
  /\ jn.file_names[3] # jn.file_names[1]
  /\ jn.file_names[3] # jn.file_names[2]

RECURSIVE Positional(_)
\* The file names of a command line: its arguments that are neither a flag
\* nor the value of -s or -n.
Positional(args) ==
  IF args = <<>> THEN <<>>
  ELSE IF Head(args) \in {ArgS, ArgN}
  THEN Positional(SubSeq(args, 3, Len(args)))
  ELSE IF Head(args) = ArgD THEN Positional(Tail(args))
  ELSE <<Head(args)>> \o Positional(Tail(args))

RECURSIVE WellFormed(_)
\* Every -s is followed by a number of at least 1 and every -n by a prefix
\* of at least MinPrefix characters.
WellFormed(args) ==
  IF args = <<>> THEN TRUE
  ELSE IF Head(args) = ArgS
  THEN Len(args) >= 2 /\ Atoi(args[2]) >= 1
         /\ WellFormed(SubSeq(args, 3, Len(args)))
  ELSE IF Head(args) = ArgN
  THEN Len(args) >= 2 /\ Len(args[2]) >= MinPrefix
         /\ WellFormed(SubSeq(args, 3, Len(args)))
  ELSE WellFormed(Tail(args))

\* The values given to -s on a command line, in bytes.
SizesGiven(args) ==
  {Atoi(args[k + 1]) * MiB :
     k \in {j \in 1..(Len(args) - 1) :
              args[j] = ArgS /\ (j = 1 \/ args[j - 1] \notin {ArgS, ArgN})}}

\* The parse loop is over: a call was made or the process has ended.
CliDecided == cli.pc \in {"split", "join", "exited"}

\* C11 (as claimed): on a well-formed command line with flags anywhere,
\* one file name makes a call of split on that name with the size -s
\* gave, more than one makes a call of join on exactly the file names, and
\* no argument at all prints the usage and exits with 0.
C11_CliDispatch ==
  (CliDecided /\ WellFormed(cli.app_params)) =>
    LET files == Positional(cli.app_params)
        sizes == SizesGiven(cli.app_params)
    IN  /\ cli.app_params = <<>> =>
             cli.call.op = "usage" /\ cli.result = "EXIT_SUCCESS"
        /\ Len(files) = 1 =>
             /\ cli.call.op = "split"
             /\ cli.call.file_names = files
             /\ sizes # {} => cli.call.max_shard_size \in sizes
        /\ Len(files) > 1 =>
             /\ cli.call.op = "join"
             /\ cli.call.file_names = files

\* "eight shards", the default of the usage text.
DefaultShards == 8

\* C12 (as claimed): chainsaw on one ordinary file and no -s ends with
\* exit code 0 and eight shards of the file on the disk, of sizes that
\* differ by at most one byte.
C12_DefaultSplit ==
  (cli.pc = "exited" /\ cli.app_params = <<ArgFile>>) =>
    LET shards == DOMAIN disk \ {ArgFile}
    IN  /\ cli.result = "EXIT_SUCCESS"
        /\ Cardinality(shards) = DefaultShards
        /\ \A p, q \in shards :
             FileSize(disk[p]) - FileSize(disk[q]) \in {-1, 0, 1}

\* The steps of one pass of split's loop body on the shard file it has
\* open: the first write of the header, a write of payload, the second
\* write of the header.
FirstWrite == sp.pc = "shard" /\ sp'.pc = "copy"

PayloadWrite == sp.pc = "copy" /\ sp'.pc = "copy"

SecondWrite == sp.pc = "copy" /\ sp'.pc = "loop"

\* The shard file a step of split changes at offset 0, if any.
HeaderWritten ==
  {p \in DOMAIN disk' : p \notin DOMAIN disk \/ disk'[p].hdr # disk[p].hdr}

\* What both statements of C13 share: the first write goes to the empty
\* shard file, the payload writes leave the header as the first write made
\* it, the second write comes when the whole payload of shard_size -
\* HeaderSize bytes is in the file, carries its CRC and leaves the payload
\* alone, and no other step of split writes a header.
TwoPhase(placeholder) ==
  /\ FirstWrite =>
       /\ disk'[sp'.out].data = <<>>
       /\ disk'[sp'.out].hdr =
            [sp'.shard_hdr EXCEPT !.shard_crc = placeholder]
       /\ disk'[sp'.out].hdr.shard_idx = sp.shard_idx
  /\ PayloadWrite =>
       /\ disk'[sp.out].hdr = disk[sp.out].hdr
       /\ Len(disk'[sp.out].data) > Len(disk[sp.out].data)
  /\ SecondWrite =>
       /\ disk'[sp.out].data = disk[sp.out].data
       /\ Len(disk[sp.out].data) = disk[sp.out].hdr.shard_size - HeaderSize
       /\ disk'[sp.out].hdr =
            [disk[sp.out].hdr EXCEPT
               !.shard_crc = WholeCrc(disk[sp.out].data)]
  /\ (sp' # sp /\ HeaderWritten # {}) =>
       /\ FirstWrite \/ SecondWrite
       /\ HeaderWritten \subseteq {sp.out, sp'.out}

\* The shard_crc of the shard split wrote last, 0 before the first shard.
LeftOverCrc ==
  IF sp.shard_hdr.shard_idx = 0 THEN 0
  ELSE disk[make_shard_name(sp.file_name, sp.shard_hdr.shard_idx,
                            sp.shard_count)].hdr.shard_crc

\* C13 (as claimed): for every shard, split writes the header twice at
\* offset 0: first, before any payload byte, with shard_crc = 0; second,
\* after the whole payload, with the CRC of the payload; nothing else is
\* written over the header between the two.
C13_TwoPhaseHeaderWrite == [][TwoPhase(0)]_vars

\* C13 (amended): as claimed, but the first write carries in shard_crc
\* what the header variable holds: 0 for the first shard, and for every
\* later shard the CRC of the shard written before it.
C13_TwoPhaseHeaderWriteAmended == [][TwoPhase(LeftOverCrc)]_vars

\* The second shard after its first header write, carrying the CRC of the
\* first shard's payload, with payload still to copy.
C13_Witness ==
  /\ sp.pc = "copy"
  /\ sp.shard_idx = 2
  /\ sp.shard_size > 0
  /\ disk[sp.out].data = <<>>
  /\ disk[sp.out].hdr.shard_crc # 0
  /\ disk[sp.out].hdr.shard_crc =
       disk[make_shard_name(sp.file_name, 1, sp.shard_count)].hdr.shard_crc

\* C14 (as claimed): once join has accepted the whole list and created the
\* output file, its map from shard_idx to path has exactly the keys
\* 1..shard_count of the master: no index twice, none missing, none out of
\* range.
C14_ShardSetComplete ==
  jn.created => DOMAIN jn.shard_map = 1..jn.master_shard_hdr.shard_count

\* C15 (as claimed): every split with a limit of at least 1 comes to an
\* end, with success or with an error; a count of exactly U16Max shards
\* is among the cases.
C15_SplitTerminates == <>SplitEnded

\* C17 (as claimed): no shard file that split writes is larger than the
\* limit, header included, for every limit of at least 1, the limits up to
\* the header size among them.
C17_ShardSizeBound ==
  (jn.pc = "idle" /\ damage = NoDamage /\ Limit >= 1) =>
    \A p \in Written : FileSize(disk[p]) <= Limit

\* The objects that hold a descriptor.
Holders == {o \in Objects : fds.obj[o] >= 0}

\* split or join has returned or thrown.
Exited == (SplitEnded /\ jn.pc = "idle") \/ JoinEnded

\* C16: at every point of split and join each open descriptor is held by
\* exactly one file_t object and every descriptor an object holds is open;
\* no close() is ever called on a descriptor that is not open (none is
\* closed twice); and when split or join has ended, with success or with
\* any error, no descriptor is left open (none is leaked).
C16_HandleRelease ==
  /\ \A a, b \in Holders : a # b => fds.obj[a] # fds.obj[b]
  /\ fds.open = {fds.obj[o] : o \in Holders}
  /\ ~fds.ebadf
  /\ Exited => fds.open = {} /\ Holders = {}

\* join has thrown in its copy pass, with in and out open and in already
\* move-assigned at least twice, and has released both.
C16_Witness ==
  /\ jn.pc = "failed"
  /\ jn.result.kind = "damaged"
  /\ Len(jn.file_names) >= 2
  /\ jn.created
  /\ fds.open = {}

Next == Split \/ Damage \/ Join

Spec == Init /\ [][Next]_vars

\* split alone, run as the process runs it: a step that can be taken is
\* taken.
SplitSpec == Init /\ [][Split]_vars /\ WF_vars(Split)
=============================================================================
